---------------------------- MODULE Spec2Model ----------------------------
(***************************************************************************)
(* Ribbon-command handlers of the quick-fill-color add-in.                 *)
(*                                                                         *)
(* Two builds of the handlers exist in the repository:                     *)
(*   "whole"   src/commands.js         one mutation on the handle returned *)
(*                                     by getSelectedRange()               *)
(*   "perArea" src/unnamed/part_000    getSelectedRanges(), load the area  *)
(*                                     list, mutate every area in a loop   *)
(* A handler is an async task.  It is suspended while Excel.run has not    *)
(* yet called the batch function and while a context.sync() is pending; the*)
(* host (the workbook, the selection, the resolution of every sync) is the *)
(* environment.  The code between two suspension points runs atomically.   *)
(***************************************************************************)
EXTENDS Integers, Sequences, FiniteSets, TLC

(* ------------------------------ bounds -------------------------------- *)
NumRegions == 2
CellsPerRegion == 2
NumEvents == 2

Regions == 1..NumRegions
Cells == 1..(NumRegions * CellsPerRegion)
Events == 1..NumEvents

\* the cells of rectangular region r; distinct regions are disjoint
RegionCells(r) == {(r - 1) * CellsPerRegion + i : i \in 1..CellsPerRegion}

CellsOf(areas) == UNION {RegionCells(r) : r \in areas}

\* Selection: one or more disjoint regions
Selections == (SUBSET Regions) \ {{}}

(* ---------------------------- fill states ----------------------------- *)
NoFill == "noFill"
\* a fill that is in the sheet before any command runs and is not in the palette
OtherFill == "#00FF00"

VariantWhole == "whole"
VariantPerArea == "perArea"
Variants == {VariantWhole, VariantPerArea}

COLORS_whole == [YELLOW |-> "#FFFF00", ORANGE |-> "#FFA500", GRAY |-> "#D3D3D3"]
COLORS_perArea == [YELLOW |-> "#FFFF00", ORANGE |-> "#FFA500", GRAY |-> "#A9A9A9"]
COLORS(v) == IF v = VariantWhole THEN COLORS_whole ELSE COLORS_perArea

\* the action names registered with Office.actions.associate
ActionNames == {"fillYellow", "fillOrange", "fillGray", "clearFill"}
FillActions == {"fillYellow", "fillOrange", "fillGray"}
\* as ColorOf, with fillGray passing COLORS.YELLOW (a copied wrapper)
ColorOfCopied(v, a) ==
  CASE a = "fillYellow" -> COLORS(v).YELLOW
    [] a = "fillOrange" -> COLORS(v).ORANGE
    [] a = "fillGray"   -> COLORS(v).YELLOW

\* fillYellow / fillOrange / fillGray: the color each wrapper passes on
ColorOf(v, a) ==
  CASE a = "fillYellow" -> COLORS(v).YELLOW
    [] a = "fillOrange" -> COLORS(v).ORANGE
    [] a = "fillGray"   -> COLORS(v).GRAY

(* --------------------------- thrown values ---------------------------- *)
Undefined == "<undefined>"
\* What a host call can raise: null/undefined, a value with no message
\* member (a thrown string, a bare object), or an Error with a message.
ErrNullish == [nullish |-> TRUE, message |-> Undefined]
ErrNoMessage == [nullish |-> FALSE, message |-> Undefined]
ErrMsg(m) == [nullish |-> FALSE, message |-> m]
HostMessages == {"E1", "E2"}
Thrown == {ErrNullish, ErrNoMessage} \cup {ErrMsg(m) : m \in HostMessages}
\* evaluating error.message on null or undefined raises this
TypeErrorValue == ErrMsg("TypeError")
NoError == [nullish |-> FALSE, message |-> "none"]

\* JS truthiness of `error && error.message`
Truthy(err) == ~err.nullish
HasMessage(err) == Truthy(err) /\ err.message # Undefined /\ err.message # ""

\* the event object the host hands to the handler
EventKinds == {"full", "noCompleted", "null"}

(* ------------------------------ state --------------------------------- *)
VARIABLES
  variant,    \* which build of the handlers is loaded
  sheet,      \* the workbook: fill of every cell
  selection,  \* the regions currently selected by the user
  task        \* per command event: the state of its handler task

vars == <<variant, sheet, selection, task>>

Unbound == {}

IdleTask ==
  [pc |-> "idle", action |-> "none", event |-> "null", phase |-> "none",
   stage |-> 0, handle |-> Unbound, items |-> <<>>, queued |-> {},
   primaryError |-> NoError, attempts |-> 0, flushes |-> 0, flushesOk |-> 0,
   completedCount |-> 0, notes |-> <<>>, trace |-> <<>>,
   handles |-> <<>>, returned |-> FALSE, result |-> "none",
   rejection |-> NoError, lastError |-> NoError,
   before |-> <<>>, primaryFailedAt |-> [stage |-> 0, at |-> "none"]]


(* ------------------- the batch function, stage by stage ---------------- *)
\* as NumStagesWhole, with the primary clear written like the fill: no load
\* flush ahead of clear()
NumStagesWholeNoLoad(a, phase) == 1

\* A stage is the synchronous code of the batch function up to and including
\* one `await context.sync()`.
NumStagesWhole(a, phase) ==
  IF a \in FillActions THEN 1          \* fillCellsWithColor: one sync
  ELSE IF phase = "primary" THEN 2     \* clearCellsFill: load sync, clear sync
  ELSE 1                               \* fallback: one sync

NumStagesPerArea(a, phase) == 3        \* load areas, load items, mutate

NumStages(v, a, phase) ==
  IF v = VariantWhole THEN NumStagesWhole(a, phase) ELSE NumStagesPerArea(a, phase)
\* as MutationOp, with the fallback writing a white color instead of the
\* "none" pattern
MutationOpWhite(v, a, phase) ==
  IF a \in FillActions THEN ColorOf(v, a)
  ELSE IF phase = "primary" THEN "clear"
  ELSE "#FFFFFF"

\* the property write the batch function queues in its last stage
MutationOp(v, a, phase) ==
  IF a \in FillActions THEN ColorOf(v, a)
  ELSE IF phase = "primary" THEN "clear"
  ELSE "patternNone"

\* the fill a queued write leaves in a cell once the host has applied it
FillAfter(op) == IF op \in {"clear", "patternNone"} THEN NoFill ELSE op

\* as LoopAreas, with the loop bound one short: the last area is skipped
RECURSIVE LoopAreasSkipsLast(_, _, _)
LoopAreasSkipsLast(i, items, op) ==
  IF i < Len(items) - 1
  THEN {[target |-> {items[i + 1]}, op |-> op]} \cup LoopAreasSkipsLast(i + 1, items, op)
  ELSE {}

\* for (let i = 0; i < areas.items.length; i++) areas.items[i].format.fill... = op
RECURSIVE LoopAreas(_, _, _)
LoopAreas(i, items, op) ==
  IF i < Len(items)
  THEN {[target |-> {items[i + 1]}, op |-> op]} \cup LoopAreas(i + 1, items, op)
  ELSE {}

\* as QueueWhole, with the write addressed to the used range of the sheet
\* instead of the selected range
QueueWholeSheet(op) == {[target |-> Regions, op |-> op]}

\* range.format.fill... = op on the handle of the whole selection
WholeSelection == {}
QueueWhole(op) == {[target |-> WholeSelection, op |-> op]}

\* the writes stage `t.stage` queues (none in a stage that only loads)
StageWrites(v, t) ==
  IF t.stage # NumStages(v, t.action, t.phase) THEN {}
  ELSE IF v = VariantWhole THEN QueueWhole(MutationOp(v, t.action, t.phase))
  ELSE LoopAreas(0, t.items, MutationOp(v, t.action, t.phase))

\* areas.items as the host loads it: the areas of the handle in sheet order
RECURSIVE AreasInOrder(_)
AreasInOrder(areas) ==
  IF areas = {} THEN <<>>
  ELSE LET r == CHOOSE x \in areas : \A y \in areas : x <= y
       IN <<r>> \o AreasInOrder(areas \ {r})

(* ------------------------------- host ---------------------------------- *)
\* the areas a queued write addresses, given the handle the host resolved
TargetAreas(w, handle) == IF w.target = WholeSelection THEN handle ELSE w.target

\* the host applies a flushed batch: every queued write, to every cell of
\* its target
HostApply(sh, handle, queued) ==
  [c \in Cells |->
     IF \E w \in queued : c \in CellsOf(TargetAreas(w, handle))
     THEN FillAfter((CHOOSE w \in queued : c \in CellsOf(TargetAreas(w, handle))).op)
     ELSE sh[c]]
\* getSelectedRange() / getSelectedRanges() is a proxy: the host resolves it
\* to the selection current at the first flush of the Excel.run it belongs to
Resolve(handle, sel) == IF handle = Unbound THEN sel ELSE handle

(* --------------------------- notifications ----------------------------- *)
\* "prefix" + error.message, as JS concatenates it
ToText(message) == IF message = Undefined THEN "undefined" ELSE message
Message(prefix, err) == [prefix |-> prefix, text |-> ToText(err.message)]

\* showNotification(header, message): the channel receives the pair; the line
\* is written only when Office.context.ui.displayDialogAsync exists
showNotification(notes, header, message, ui) ==
  Append(notes, [header |-> header, prefix |-> message.prefix,
                 text |-> message.text, logged |-> ui])

(* ------------------------ catch / finally blocks ----------------------- *)
\* as Finally, had completion been signaled after the try/catch statement
\* instead of in a finally block: an error leaving a catch block skips it
FinallySkippedOnThrow(t) ==
  IF t.event = "full" /\ t.result # "rejected"
  THEN [t EXCEPT !.pc = "done", !.completedCount = @ + 1,
                 !.trace = Append(@, "completed")]
  ELSE [t EXCEPT !.pc = "done"]

\* as Finally, with the finally block ending the handler without the call
\* of event.completed()
FinallyNoCall(t) == [t EXCEPT !.pc = "done"]

\* finally { if (event && event.completed) event.completed(); }
Finally(t) ==
  IF t.event = "full"
  THEN [t EXCEPT !.pc = "done", !.completedCount = @ + 1,
                 !.trace = Append(@, "completed")]
  ELSE [t EXCEPT !.pc = "done"]
\* as CatchFill, forwarding "Failed to fill cells: " + error.message without
\* the `error && error.message` guard
CatchFillUnguarded(t, err, ui) ==
  Finally([t EXCEPT
             !.trace = @ \o <<"primaryFailed", "notify">>,
             !.lastError = err, !.queued = {},
             !.notes = showNotification(@, "Error",
                         Message("Failed to fill cells: ", err), ui),
             !.result = "fulfilled"])

\* fillCellsWithColor: catch (error) { ... }
CatchFill(t, err, ui) ==
  LET failed == [t EXCEPT !.trace = Append(@, "primaryFailed"),
                          !.lastError = err, !.queued = {}]
      told == IF Truthy(err) /\ HasMessage(err)
              THEN [failed EXCEPT
                      !.notes = showNotification(@, "Error",
                                  Message("Failed to fill cells: ", err), ui),
                      !.trace = Append(@, "notify")]
              ELSE failed
  IN Finally([told EXCEPT !.result = "fulfilled"])
\* where the awaited Excel.run failed: in the synchronous code of a stage
\* ("run": acquiring the selection, a load, the property write, clear()) or
\* in the flush that ends it ("sync")
FailedAt(t) == [stage |-> t.stage, at |-> t.pc]

\* as CatchPrimaryClear, giving up after the primary error: no fallback
CatchPrimaryClearGivesUp(t, err) ==
  Finally([t EXCEPT !.primaryError = err, !.lastError = err, !.queued = {},
                    !.primaryFailedAt = FailedAt(t),
                    !.result = "fulfilled",
                    !.trace = Append(@, "primaryFailed")])

\* as CatchPrimaryClear, with the fallback reusing the handle the primary
\* attempt acquired instead of asking for the selection again
CatchPrimaryClearReusesHandle(t, err) ==
  [t EXCEPT !.primaryError = err, !.lastError = err,
            !.primaryFailedAt = FailedAt(t),
            !.phase = "fallback", !.attempts = @ + 1, !.stage = 1,
            !.queued = {},
            !.pc = "run",
            !.trace = @ \o <<"primaryFailed", "fallback">>]

\* as CatchPrimaryClear, falling back only when clear() itself raised (the
\* synchronous code of the last stage); any other error ends the handler
CatchPrimaryClearOnlyOnClear(t, err) ==
  IF t.pc = "run" /\ t.stage = NumStages(variant, t.action, t.phase)
  THEN [t EXCEPT !.primaryError = err, !.lastError = err,
                 !.primaryFailedAt = FailedAt(t),
                 !.phase = "fallback", !.attempts = @ + 1, !.stage = 1,
                 !.handle = Unbound, !.items = <<>>, !.queued = {},
                 !.pc = "run",
                 !.trace = @ \o <<"primaryFailed", "fallback">>]
  ELSE Finally([t EXCEPT !.primaryError = err, !.lastError = err, !.queued = {},
                         !.primaryFailedAt = FailedAt(t),
                         !.result = "fulfilled",
                         !.trace = Append(@, "primaryFailed")])

\* as CatchPrimaryClear, also forwarding the primary error to the
\* notification channel before the fallback is tried
CatchPrimaryClearNotifies(t, err) ==
  [t EXCEPT !.primaryError = err, !.lastError = err,
            !.primaryFailedAt = FailedAt(t),
            !.phase = "fallback", !.attempts = @ + 1, !.stage = 1,
            !.handle = Unbound, !.items = <<>>, !.queued = {},
            !.pc = "run",
            !.notes = showNotification(@, "Error",
                        Message("Failed to clear fill: ", err), TRUE),
            !.trace = @ \o <<"primaryFailed", "notify", "fallback">>]

\* clearCellsFill: the outer catch (error) starts the fallback Excel.run
CatchPrimaryClear(t, err) ==
  [t EXCEPT !.primaryError = err, !.lastError = err,
            !.primaryFailedAt = FailedAt(t),
            !.phase = "fallback", !.attempts = @ + 1, !.stage = 1,
            !.handle = Unbound, !.items = <<>>, !.queued = {},
            !.pc = "run",
            !.trace = @ \o <<"primaryFailed", "fallback">>]

\* clearCellsFill: the inner catch (fallbackError) reads error.message of the
\* PRIMARY error without a guard; on null/undefined that raises a TypeError
\* which leaves the handler through finally
CatchFallback(t, fallbackError, ui) ==
  LET failed == [t EXCEPT !.trace = Append(@, "fallbackFailed"),
                          !.lastError = fallbackError, !.queued = {}]
  IN IF t.primaryError.nullish
     THEN Finally([failed EXCEPT !.result = "rejected",
                                 !.rejection = TypeErrorValue])
     ELSE Finally([failed EXCEPT
                     !.notes = showNotification(@, "Error",
                                 Message("Failed to clear fill: ", t.primaryError), ui),
                     !.trace = Append(@, "notify"),
                     !.result = "fulfilled"])

\* Excel.run rejected with err: the handler resumes in the catch block that
\* encloses the awaited Excel.run
Catch(t, err, ui) ==
  IF t.action \in FillActions THEN CatchFill(t, err, ui)
  ELSE IF t.phase = "primary" THEN CatchPrimaryClear(t, err)
  ELSE CatchFallback(t, err, ui)
\* as TryDone, had completion been signaled in the catch blocks only
TryDoneNoSignal(t) ==
  [t EXCEPT !.pc = "done", !.result = "fulfilled",
            !.trace = Append(@, IF t.phase = "primary" THEN "primaryOk"
                                ELSE "fallbackOk")]

\* Excel.run resolved: the handler leaves the try block normally
TryDone(t) ==
  Finally([t EXCEPT !.result = "fulfilled",
                    !.trace = Append(@, IF t.phase = "primary" THEN "primaryOk"
                                        ELSE "fallbackOk")])


(* ------------------------------ actions -------------------------------- *)
\* the workbook before the command: blank, or every cell already filled
InitSheets == {[c \in Cells |-> f] : f \in {NoFill, OtherFill}}

Init ==
  /\ variant \in Variants
  /\ sheet \in InitSheets
  /\ selection \in Selections
  /\ task = [e \in Events |-> IdleTask]

\* fillYellow(event) .. clearFill(event): the wrapper calls the async function,
\* which runs up to `await Excel.run(...)`; the wrapper then returns to the host
Start(e, a, k) ==
  /\ task[e].pc = "idle"
  /\ task' = [task EXCEPT ![e] =
       [IdleTask EXCEPT !.pc = "run", !.action = a, !.event = k,
                        !.phase = "primary", !.attempts = 1, !.stage = 1,
                        !.trace = <<"primary">>, !.returned = TRUE,
                        !.before = sheet,
                        !.result = "pending"]]
  /\ UNCHANGED <<variant, sheet, selection>>

\* the host fires one command; events are numbered in the order they fire
Invoke(e, a, k) ==
  /\ \A o \in Events : task[o].pc = "idle"
  /\ \A o \in Events : e <= o
  /\ Start(e, a, k)

\* as RunStage, with context.sync() called without `await`: the handler
\* runs on to its finally block while the flush is still in flight
RunStageNoAwait(e) ==
  /\ task[e].pc = "run"
  /\ task' = [task EXCEPT ![e] =
       [@ EXCEPT !.queued = StageWrites(variant, task[e]),
                 !.flushes = @ + 1, !.pc = "sync",
                 !.completedCount = IF task[e].event = "full" THEN @ + 1 ELSE @,
                 !.trace = IF task[e].event = "full" THEN Append(@, "completed") ELSE @]]
  /\ UNCHANGED <<variant, sheet, selection>>

\* the synchronous code of one stage runs and issues context.sync()
RunStage(e) ==
  /\ task[e].pc = "run"
  /\ task' = [task EXCEPT ![e] =
       [@ EXCEPT !.queued = StageWrites(variant, task[e]),
                 !.flushes = @ + 1, !.pc = "sync"]]
  /\ UNCHANGED <<variant, sheet, selection>>

\* a host call in the synchronous code of a stage raises err (acquiring the
\* selection, a load, the property write, clear()): Excel.run rejects
StageThrow(e, err, ui) ==
  /\ task[e].pc = "run"
  /\ task' = [task EXCEPT ![e] = Catch(task[e], err, ui)]
  /\ UNCHANGED <<variant, sheet, selection>>

\* the host executes the flushed batch and resolves context.sync()
SyncResolve(e) ==
  /\ task[e].pc = "sync"
  /\ LET t == task[e]
         h == Resolve(t.handle, selection)
         bound == [t EXCEPT
                     !.handle = h,
                     !.handles = IF t.handle = Unbound
                                 THEN Append(@, [phase |-> t.phase, areas |-> h,
                                                 current |-> selection])
                                 ELSE @,
                     !.items = IF variant = VariantPerArea /\ t.stage >= 2
                               THEN AreasInOrder(h) ELSE @,
                     !.queued = {},
                     !.flushesOk = @ + 1]
     IN /\ sheet' = HostApply(sheet, h, t.queued)
        /\ task' = [task EXCEPT ![e] =
             IF t.stage < NumStages(variant, t.action, t.phase)
             THEN [bound EXCEPT !.stage = @ + 1, !.pc = "run"]
             ELSE TryDone(bound)]
  /\ UNCHANGED <<variant, selection>>

\* as SyncReject, had the handlers shared one request context: a rejected
\* flush would fail every handler that is waiting for a flush
SyncRejectShared(e, err, ui) ==
  /\ task[e].pc = "sync"
  /\ task' = [o \in Events |->
                IF task[o].pc = "sync" THEN Catch(task[o], err, ui) ELSE task[o]]
  /\ UNCHANGED <<variant, sheet, selection>>

\* the host rejects context.sync() with err: nothing of the batch is applied
SyncReject(e, err, ui) ==
  /\ task[e].pc = "sync"
  /\ task' = [task EXCEPT ![e] = Catch(task[e], err, ui)]
  /\ UNCHANGED <<variant, sheet, selection>>

\* the user selects other cells while a handler is suspended
ChangeSelection(s) ==
  /\ \E e \in Events : task[e].pc = "sync"
  /\ s # selection
  /\ selection' = s
  /\ UNCHANGED <<variant, sheet, task>>

Next ==
  \/ \E e \in Events, a \in ActionNames, k \in EventKinds : Invoke(e, a, k)
  \/ \E e \in Events : RunStage(e)
  \/ \E e \in Events, err \in Thrown, ui \in BOOLEAN : StageThrow(e, err, ui)
  \/ \E e \in Events : SyncResolve(e)
  \/ \E e \in Events, err \in Thrown, ui \in BOOLEAN : SyncReject(e, err, ui)
  \/ \E s \in Selections : ChangeSelection(s)

Spec == Init /\ [][Next]_vars


(* ------------------------- reading a task's trace ---------------------- *)
Has(seq, x) == \E i \in 1..Len(seq) : seq[i] = x
Count(seq, x) == Cardinality({i \in 1..Len(seq) : seq[i] = x})
\* position of the first x in seq, 0 when there is none
IndexOf(seq, x) ==
  IF Has(seq, x) THEN CHOOSE i \in 1..Len(seq) :
                        seq[i] = x /\ \A j \in 1..(i - 1) : seq[j] # x
  ELSE 0
Before(seq, x, y) == Has(seq, x) /\ Has(seq, y) /\ IndexOf(seq, x) < IndexOf(seq, y)

Done(e) == task[e].pc = "done"
IsFill(e) == task[e].action \in FillActions
IsClear(e) == task[e].action = "clearFill"
\* the event carries a completion signal
Signals(e) == task[e].event = "full"

(* =============================== claims ================================ *)

\* C1: for each of the four actions and every outcome of the host calls, one
\* invocation calls the event's completion signal exactly once: never twice
\* at any moment, and once when the handler's task has ended.
C1_CompletedExactlyOnce ==
  \A e \in Events :
    Signals(e) =>
      /\ task[e].completedCount <= 1
      /\ Count(task[e].trace, "completed") = task[e].completedCount
      /\ Done(e) => task[e].completedCount = 1

\* C1 witness: clearFill whose primary and fallback both raised, ended with
\* one completion signal
C1_Witness ==
  \E e \in Events :
    /\ Done(e) /\ IsClear(e) /\ Signals(e)
    /\ Has(task[e].trace, "fallbackFailed")
    /\ task[e].completedCount = 1

\* C2 (as claimed): no error escapes a handler; the task never ends rejected,
\* whatever the host calls raise.
C2_NoErrorEscapes ==
  \A e \in Events : task[e].result # "rejected"

\* the colors the claim names for the three fill commands
ClaimedColor(a) ==
  CASE a = "fillYellow" -> "#FFFF00"
    [] a = "fillOrange" -> "#FFA500"
    [] a = "fillGray"   -> IF variant = VariantWhole THEN "#D3D3D3" ELSE "#A9A9A9"

\* C3: a fill command whose host calls and flushes all succeeded has, when
\* completion is signaled, given every cell of every region of the selection
\* it acquired exactly the color of its action.
C3_FillReachesEveryCell ==
  \A e \in Events :
    (Done(e) /\ IsFill(e) /\ Has(task[e].trace, "primaryOk")) =>
      /\ task[e].handle \in Selections
      /\ task[e].handle = task[e].handles[1].current
      /\ \A c \in CellsOf(task[e].handle) : sheet[c] = ClaimedColor(task[e].action)

\* C3 witness: fillGray over every region of a sheet that was filled with
\* another color, completed
C3_Witness ==
  \E e \in Events :
    /\ Done(e) /\ task[e].action = "fillGray" /\ task[e].completedCount = 1
    /\ Has(task[e].trace, "primaryOk")
    /\ task[e].handle = Regions /\ Cardinality(Regions) >= 2
    /\ \A c \in Cells : sheet[c] = ClaimedColor("fillGray")

\* C4: a clearFill that ends with a successful flush, of the primary clear()
\* or of the fallback pattern write, leaves every cell of every region that
\* attempt acquired with no fill when completion is signaled.
C4_ClearReachesEveryCell ==
  \A e \in Events :
    (Done(e) /\ IsClear(e)
       /\ (Has(task[e].trace, "primaryOk") \/ Has(task[e].trace, "fallbackOk"))) =>
      /\ task[e].handle \in Selections
      /\ \A c \in CellsOf(task[e].handle) : sheet[c] = NoFill

\* C4 witness: the fallback path cleared a filled selection
C4_Witness ==
  \E e \in Events :
    /\ Done(e) /\ IsClear(e) /\ Has(task[e].trace, "fallbackOk")
    /\ task[e].completedCount = 1
    /\ \E c \in Cells : sheet[c] = OtherFill
    /\ \A c \in CellsOf(task[e].handle) : sheet[c] = NoFill

\* C5: in clearFill the fallback never starts before the primary attempt has
\* been made and has raised; once the primary has raised, the fallback is
\* attempted before completion is signaled; after a successful primary the
\* fallback is never attempted.
C5_PrimaryBeforeFallback ==
  \A e \in Events :
    LET tr == task[e].trace IN
    /\ Has(tr, "fallback") =>
         /\ IsClear(e)
         /\ Before(tr, "primary", "primaryFailed")
         /\ Before(tr, "primaryFailed", "fallback")
    /\ (IsClear(e) /\ Has(tr, "primaryFailed")) => Has(tr, "fallback")
    /\ (IsClear(e) /\ Has(tr, "primaryFailed") /\ Has(tr, "completed")) =>
         Before(tr, "fallback", "completed")
    /\ Has(tr, "primaryOk") => ~Has(tr, "fallback")

\* C5 witness: primary raised, fallback ran and succeeded, then completion
C5_Witness ==
  \E e \in Events :
    task[e].trace = <<"primary", "primaryFailed", "fallback", "fallbackOk", "completed">>


\* C6 (as claimed): when the primary and the fallback clear both raise, the
\* notification channel receives one message carrying the text of the primary
\* error, and completion is signaled after the notification.
C6_PrimaryTextNotified ==
  \A e \in Events :
    (Done(e) /\ IsClear(e) /\ Signals(e) /\ Has(task[e].trace, "fallbackFailed")) =>
      /\ Len(task[e].notes) = 1
      /\ task[e].notes[1].text = ToText(task[e].primaryError.message)
      /\ Before(task[e].trace, "notify", "completed")
      /\ task[e].completedCount = 1

\* C7: clearFill makes at most two attempts, one primary and at most one
\* fallback; the fallback is a fresh Excel.run whose handle is the selection
\* current when the fallback acquires it, not the primary's handle; once the
\* fallback has ended nothing further is attempted.
C7_AtMostOneFallback ==
  \A e \in Events :
    LET t == task[e] IN
    /\ t.attempts <= 2
    /\ IsFill(e) => t.attempts <= 1
    /\ Count(t.trace, "primary") <= 1 /\ Count(t.trace, "fallback") <= 1
    /\ t.attempts = Count(t.trace, "primary") + Count(t.trace, "fallback")
    /\ (Has(t.trace, "fallbackOk") \/ Has(t.trace, "fallbackFailed")) =>
         Done(e) /\ t.attempts = 2
    /\ Has(t.trace, "fallbackOk") =>
         /\ Len(t.handles) >= 1
         /\ t.handles[Len(t.handles)].phase = "fallback"
         /\ t.handles[Len(t.handles)].areas = t.handles[Len(t.handles)].current
         /\ t.handle = t.handles[Len(t.handles)].areas

\* C7 witness: the selection changed after the primary attempt acquired it;
\* the fallback acquired the new selection and ended the invocation
C7_Witness ==
  \E e \in Events :
    /\ Done(e) /\ Has(task[e].trace, "fallbackOk")
    /\ Len(task[e].handles) = 2
    /\ task[e].handles[1].phase = "primary"
    /\ task[e].handles[2].phase = "fallback"
    /\ task[e].handles[1].areas # task[e].handles[2].areas

\* C8 (as claimed): in a fill command any raised error leads to one attempt,
\* the error's message forwarded to the notification channel, then completion.
C8_FillErrorAlwaysNotified ==
  \A e \in Events :
    (Done(e) /\ IsFill(e) /\ Signals(e) /\ Has(task[e].trace, "primaryFailed")) =>
      /\ task[e].attempts = 1
      /\ Len(task[e].notes) = 1
      /\ task[e].notes[1].text = ToText(task[e].lastError.message)
      /\ Before(task[e].trace, "notify", "completed")

\* C8 (amended): in a fill command any raised error leads to one attempt and
\* then to completion; the message is forwarded to the notification channel
\* exactly when the raised value is non-null and carries a non-empty message,
\* and nothing is forwarded otherwise.
C8_FillErrorNotifiedIfMessage ==
  \A e \in Events :
    (Done(e) /\ IsFill(e) /\ Signals(e) /\ Has(task[e].trace, "primaryFailed")) =>
      LET t == task[e]
          carries == ~t.lastError.nullish /\ t.lastError.message \notin {Undefined, ""}
      IN /\ t.attempts = 1
         /\ t.completedCount = 1
         /\ t.result = "fulfilled"
         /\ t.trace[Len(t.trace)] = "completed"
         /\ carries =>
              /\ Len(t.notes) = 1
              /\ t.notes[1].text = t.lastError.message
              /\ t.notes[1].prefix = "Failed to fill cells: "
              /\ Before(t.trace, "notify", "completed")
         /\ ~carries => t.notes = <<>>

\* C8 witness: a fill whose flush was rejected with a message-carrying error
C8_Witness ==
  \E e \in Events :
    /\ Done(e) /\ IsFill(e) /\ Signals(e)
    /\ task[e].flushes = 1 /\ task[e].flushesOk = 0
    /\ task[e].lastError = ErrMsg("E1")
    /\ Len(task[e].notes) = 1 /\ task[e].notes[1].text = "E1"
    /\ task[e].completedCount = 1

\* C9 (as claimed): the completion signal has been called by the time the
\* handler function returns control to the host.
C9_CompletedBeforeReturn ==
  \A e \in Events :
    (Signals(e) /\ task[e].returned) => task[e].completedCount >= 1

\* C9 (amended): the handler function returns to the host at its task's first
\* suspension, before completion; on every path the completion signal has
\* been called by the time the task ends, as its last step.
C9_CompletedWhenTaskEnds ==
  \A e \in Events :
    Signals(e) =>
      /\ task[e].result \in {"fulfilled", "rejected"} =>
           /\ task[e].completedCount >= 1
           /\ task[e].trace[Len(task[e].trace)] = "completed"
      /\ task[e].completedCount >= 1 => task[e].returned /\ Done(e)
      /\ (task[e].returned /\ ~Done(e)) => task[e].completedCount = 0

\* C9 witness: a handler that has returned to the host and is suspended at a
\* flush, completion not yet signaled
C9_Witness ==
  \E e \in Events :
    /\ Signals(e) /\ task[e].returned /\ task[e].pc = "sync"
    /\ task[e].completedCount = 0

\* C10 (as claimed): on the no-error path an invocation issues exactly one
\* flush, for a fill command and for the primary clear-fill path alike.
C10_OneFlushOnCommonPath ==
  \A e \in Events :
    (Done(e) /\ Has(task[e].trace, "primaryOk")) => task[e].flushes = 1

\* C10 (amended): on the no-error path the whole-selection build issues
\* exactly one flush for a fill command and exactly two for clearFill (a load
\* flush, then the flush that carries clear()); the per-area build issues
\* exactly three for either.
C10_FlushesOnCommonPath ==
  \A e \in Events :
    (Done(e) /\ Has(task[e].trace, "primaryOk")) =>
      /\ task[e].flushes = task[e].flushesOk
      /\ task[e].flushes =
           IF variant = VariantPerArea THEN 3
           ELSE IF IsFill(e) THEN 1 ELSE 2

\* C10 witness: a whole-selection clearFill that succeeded on its primary
\* path with two flushes
C10_Witness ==
  \E e \in Events :
    /\ variant = VariantWhole /\ Done(e) /\ IsClear(e)
    /\ Has(task[e].trace, "primaryOk") /\ task[e].flushes = 2


(* ------------------------ overlapping commands ------------------------- *)
\* the two command events whose handlers overlap
OverlapEvents == {e \in Events : e <= 2}

\* the values a host call raises in the overlap runs: one without and one
\* with a message
OverlapThrown == {ErrNullish, ErrMsg("E1")}

InitOverlap ==
  /\ variant \in Variants
  /\ sheet = [c \in Cells |-> OtherFill]
  /\ selection \in Selections
  /\ task = [e \in Events |-> IdleTask]

\* the host fires the first command, and the second one while the handler of
\* the first is suspended at a flush
InvokeOverlap(e, a) ==
  /\ e \in OverlapEvents
  /\ \A o \in OverlapEvents : o < e => task[o].pc = "sync"
  /\ \A o \in OverlapEvents : o > e => task[o].pc = "idle"
  /\ Start(e, a, "full")

NextOverlap ==
  \/ \E e \in Events, a \in ActionNames : InvokeOverlap(e, a)
  \/ \E e \in Events : RunStage(e)
  \/ \E e \in Events, err \in OverlapThrown : StageThrow(e, err, TRUE)
  \/ \E e \in Events : SyncResolve(e)
  \/ \E e \in Events, err \in OverlapThrown : SyncReject(e, err, TRUE)

SpecOverlap == InitOverlap /\ [][NextOverlap]_vars

\* what the notification channel has received: prefix and text of each message
NoteTexts(notes) == [i \in 1..Len(notes) |-> <<notes[i].prefix, notes[i].text>>]

\* C11: when two command events overlap, under every interleaving of their
\* flush resolutions each event's completion signal is called exactly once,
\* and only by a step of its own handler; a step of one handler (an error, a
\* fallback, a completion) leaves the attempts, notifications and completion
\* of the other untouched, and each handler's attempts and notifications are
\* those its own host responses call for.
C11_OverlapIndependent ==
  /\ [](\A e \in OverlapEvents :
          LET t == task[e] IN
          /\ t.completedCount <= 1
          /\ Done(e) => t.completedCount = 1
          /\ Done(e) => t.attempts = IF IsClear(e) /\ Has(t.trace, "primaryFailed")
                                     THEN 2 ELSE 1
          /\ Done(e) /\ Has(t.trace, "primaryOk") => t.notes = <<>>
          /\ Done(e) /\ IsFill(e) /\ Has(t.trace, "primaryFailed") =>
               NoteTexts(t.notes) =
                 IF ~t.lastError.nullish /\ t.lastError.message # Undefined
                 THEN << <<"Failed to fill cells: ", t.lastError.message>> >>
                 ELSE <<>>)
  /\ [][\A e \in Events, o \in Events :
          (e # o /\ task'[e] # task[e]) => task'[o] = task[o]]_vars

\* C11 witness: the second command, a fill, has completed cleanly while the
\* first, a clearFill, is in its fallback after a primary error
C11_Witness ==
  /\ Done(2) /\ IsFill(2) /\ Has(task[2].trace, "primaryOk")
  /\ task[2].completedCount = 1 /\ task[2].notes = <<>> /\ task[2].attempts = 1
  /\ task[1].pc = "sync" /\ task[1].phase = "fallback" /\ task[1].attempts = 2
  /\ task[1].completedCount = 0


\* C12: within one invocation completion is never signaled while a flush the
\* invocation issued is unresolved: once completion has been signaled the
\* task is past every flush, and it issues no flush afterwards.
C12_NoCompletionWhileFlushPending ==
  /\ [](\A e \in Events :
          task[e].completedCount >= 1 =>
            /\ task[e].pc # "sync"
            /\ task[e].queued = {}
            /\ Done(e))
  /\ [][\A e \in Events :
          task[e].completedCount >= 1 => task'[e].flushes = task[e].flushes]_vars

\* C12 witness: a clearFill that signaled completion after both the flush of
\* its primary attempt (rejected) and the flush of its fallback (resolved)
C12_Witness ==
  \E e \in Events :
    /\ Done(e) /\ IsClear(e) /\ task[e].completedCount = 1
    /\ task[e].primaryFailedAt.at = "sync"
    /\ Has(task[e].trace, "fallbackOk")
    /\ task[e].flushes >= 2 /\ task[e].flushesOk >= 1


(* ------------------------------ liveness ------------------------------- *)
\* Every host call eventually resolves or rejects: the batch function is
\* eventually run (it returns at a flush or raises), and a pending flush is
\* eventually resolved or rejected.
HostResponds ==
  \A e \in Events :
    /\ WF_vars(RunStage(e) \/ \E err \in Thrown, ui \in BOOLEAN : StageThrow(e, err, ui))
    /\ WF_vars(SyncResolve(e) \/ \E err \in Thrown, ui \in BOOLEAN : SyncReject(e, err, ui))

\* one command on a filled sheet, the selection left alone while it runs
NextLive ==
  \/ \E e \in Events, a \in ActionNames, k \in EventKinds : Invoke(e, a, k)
  \/ \E e \in Events : RunStage(e)
  \/ \E e \in Events, err \in Thrown, ui \in BOOLEAN : StageThrow(e, err, ui)
  \/ \E e \in Events : SyncResolve(e)
  \/ \E e \in Events, err \in Thrown, ui \in BOOLEAN : SyncReject(e, err, ui)

SpecLive == InitOverlap /\ [][NextLive]_vars /\ HostResponds

\* C13: if every host call eventually resolves or rejects, every invocation
\* eventually ends, having signaled completion; and there is no timeout
\* path: a handler suspended at a flush has not signaled completion and
\* leaves that flush only by the flush being resolved or rejected.
C13_CompletesIffHostResponds ==
  /\ \A e \in Events :
       (task[e].pc \in {"run", "sync"}) ~>
         (Done(e) /\ (Signals(e) => task[e].completedCount = 1))
  /\ [](\A e \in Events : task[e].pc = "sync" => task[e].completedCount = 0)
  /\ [][\A e \in Events :
          (task[e].pc = "sync" /\ task'[e] # task[e]) =>
            \/ task'[e].flushesOk = task[e].flushesOk + 1
            \/ /\ task'[e].flushesOk = task[e].flushesOk
               /\ task'[e].lastError \in Thrown
               /\ Len(task'[e].trace) > Len(task[e].trace)
               /\ task'[e].trace[Len(task[e].trace) + 1]
                    \in {"primaryFailed", "fallbackFailed"}]_vars

\* C13 witness: an invocation that was suspended at three flushes in turn
\* and, all of them resolved, ended with completion signaled
C13_Witness ==
  \E e \in Events :
    /\ Done(e) /\ task[e].completedCount = 1
    /\ task[e].flushes = 3 /\ task[e].flushesOk = 3


(* ------------------- the two builds, side by side ---------------------- *)
\* some attempt of the invocation ended with its last flush resolved
Succeeded(t) == Has(t.trace, "primaryOk") \/ Has(t.trace, "fallbackOk")

\* the sheet the whole-selection build leaves for the inputs task t had (the
\* sheet before, the selection acquired, the action, which attempt succeeded)
\* when its mutation writes the fill `op`
SheetAfterWholeWrite(t, op) ==
  IF Succeeded(t) THEN HostApply(t.before, t.handle, QueueWhole(op)) ELSE t.before

\* the messages the handlers forward for the errors task t met
NotesFor(t) ==
  IF t.action \in FillActions /\ Has(t.trace, "primaryFailed")
       /\ ~t.lastError.nullish /\ t.lastError.message # Undefined
  THEN << <<"Failed to fill cells: ", t.lastError.message>> >>
  ELSE IF t.action = "clearFill" /\ Has(t.trace, "fallbackFailed")
            /\ ~t.primaryError.nullish
  THEN << <<"Failed to clear fill: ",
            IF t.primaryError.message = Undefined THEN "undefined"
            ELSE t.primaryError.message>> >>
  ELSE <<>>

\* C14 (as claimed): the per-area build and the whole-selection build leave,
\* for the same selection, action and pattern of host successes, the same
\* fill in every cell, the same number of completion signals and the same
\* notifications: each build's outcome is what the whole-selection build
\* writes (COLORS of src/commands.js).
C14_BuildsEquivalent ==
  \A e \in Events :
    Done(e) =>
      /\ sheet = SheetAfterWholeWrite(task[e],
                   MutationOp(VariantWhole, task[e].action, task[e].phase))
      /\ task[e].completedCount = IF Signals(e) THEN 1 ELSE 0
      /\ NoteTexts(task[e].notes) = NotesFor(task[e])

\* C14 (amended): the two builds leave the same cells changed, the same number
\* of completion signals and the same notifications, and the same fill in
\* every cell for fillYellow, fillOrange and clearFill; for fillGray the
\* cells are the same but each build writes its own gray (#D3D3D3 in the
\* whole-selection build, #A9A9A9 in the per-area build).
C14_BuildsEquivalentUpToGray ==
  \A e \in Events :
    Done(e) =>
      /\ sheet = SheetAfterWholeWrite(task[e],
                   IF task[e].action = "fillGray"
                   THEN (IF variant = VariantWhole THEN "#D3D3D3" ELSE "#A9A9A9")
                   ELSE MutationOp(VariantWhole, task[e].action, task[e].phase))
      /\ task[e].completedCount = IF Signals(e) THEN 1 ELSE 0
      /\ NoteTexts(task[e].notes) = NotesFor(task[e])

\* C14 witness: the per-area build filled a selection of every region, area
\* by area, and left what one write on the whole selection leaves
C14_Witness ==
  \E e \in Events :
    /\ variant = VariantPerArea /\ Done(e) /\ task[e].action = "fillYellow"
    /\ Has(task[e].trace, "primaryOk")
    /\ task[e].handle = Regions /\ Len(task[e].items) >= 2
    /\ task[e].before = [c \in Cells |-> OtherFill]
    /\ sheet = [c \in Cells |-> "#FFFF00"]


\* C15: a handler changes no cell outside the selection it acquired: every
\* change of the sheet is the resolution of a flush of some task and touches
\* only cells of that task's handle. An invocation none of whose mutating
\* flushes resolved (a fill whose flush is rejected, a clearFill whose
\* attempts both raise) leaves every cell as it was before the invocation,
\* and nothing is written to undo or compensate.
C15_FrameAndNoPartialWrite ==
  /\ [][\A c \in Cells :
          sheet'[c] # sheet[c] =>
            \E e \in Events :
              /\ task[e].pc = "sync"
              /\ task'[e].flushesOk = task[e].flushesOk + 1
              /\ c \in CellsOf(task'[e].handle)]_vars
  /\ [](\A e \in Events :
          Done(e) =>
            /\ \A c \in Cells \ CellsOf(task[e].handle) : sheet[c] = task[e].before[c]
            /\ ~Succeeded(task[e]) => sheet = task[e].before)

\* C15 witness: a fill of one region of a filled sheet whose only flush was
\* rejected; the sheet is as before
C15_Witness ==
  \E e \in Events :
    /\ Done(e) /\ IsFill(e) /\ task[e].flushes = 1 /\ task[e].flushesOk = 0
    /\ task[e].before = [c \in Cells |-> OtherFill]
    /\ sheet = task[e].before


\* C16: in clearFill the fallback is triggered by an error at any step of the
\* primary operation, in the synchronous code of any stage (acquiring the
\* selection, a load, clear() itself) or in any of its flushes, not only by
\* clear() raising: whatever the place, a second attempt is made and the only
\* write it queues is the pattern-none write.
C16_AnyPrimaryErrorFallsBack ==
  \A e \in Events :
    LET t == task[e] IN
    /\ (IsClear(e) /\ Has(t.trace, "primaryFailed")) =>
         /\ t.primaryFailedAt.at \in {"run", "sync"}
         /\ t.primaryFailedAt.stage \in 1..NumStages(variant, "clearFill", "primary")
         /\ Has(t.trace, "fallback")
         /\ t.attempts = 2
    /\ (IsClear(e) /\ t.phase = "fallback" /\ t.queued # {}) =>
         \A w \in t.queued : w.op = "patternNone"

\* C16 witness: the selection read of the primary operation failed before any
\* flush, and the fallback's pattern-none write cleared the selection
C16_Witness ==
  \E e \in Events :
    /\ Done(e) /\ IsClear(e)
    /\ task[e].primaryFailedAt = [stage |-> 1, at |-> "run"]
    /\ Has(task[e].trace, "fallbackOk")
    /\ task[e].before = [c \in Cells |-> OtherFill]
    /\ \A c \in CellsOf(task[e].handle) : sheet[c] = NoFill


\* C17: an invocation forwards at most one message to the notification
\* channel and none when it ends in success (a clearFill whose primary fails
\* and whose fallback succeeds sends none); a fill command sends one exactly
\* when its single attempt fails with a non-null value carrying a message.
C17_AtMostOneNotification ==
  \A e \in Events :
    LET t == task[e] IN
    /\ Len(t.notes) <= 1
    /\ Count(t.trace, "notify") = Len(t.notes)
    /\ (Done(e) /\ Succeeded(t)) => t.notes = <<>>
    /\ (Done(e) /\ IsFill(e)) =>
         (Len(t.notes) = 1 <=>
            /\ Has(t.trace, "primaryFailed")
            /\ ~t.lastError.nullish
            /\ t.lastError.message \notin {Undefined, ""})
    /\ ~Done(e) => t.notes = <<>>

\* C17 witness: a clearFill whose primary attempt raised and whose fallback
\* succeeded ended without any notification
C17_Witness ==
  \E e \in Events :
    /\ Done(e) /\ IsClear(e)
    /\ Has(task[e].trace, "primaryFailed") /\ Has(task[e].trace, "fallbackOk")
    /\ task[e].primaryError = ErrMsg("E1")
    /\ task[e].notes = <<>>

\* C18 (as claimed): a handler invoked with no event, or with an event that
\* has no completion member, runs the whole mutation (and fallback) sequence,
\* then finishes without calling a completion signal and without raising an
\* error.
C18_NoEventNoError ==
  \A e \in Events :
    (Done(e) /\ task[e].event \in {"null", "noCompleted"}) =>
      /\ task[e].completedCount = 0
      /\ ~Has(task[e].trace, "completed")
      /\ task[e].attempts = IF IsClear(e) /\ Has(task[e].trace, "primaryFailed")
                            THEN 2 ELSE 1
      /\ task[e].result = "fulfilled"

=============================================================================
